---- MODULE Spec2Model ----
(***************************************************************************)
(* State-machine model of the TRS Foundation self-healing link system      *)
(* (src/foundation-links.js): the TRSLinkFoundation class, its scheduler   *)
(* (initial scan, setInterval callback, recheckAll) and the probe chains   *)
(* that validateLink runs on the event loop; and of the two deploy scripts *)
(* (src/unnamed/part_000, src/scripts/deploy.sh), one run of one script.   *)
(*                                                                         *)
(* One action is one run-to-completion step of the event loop: the         *)
(* synchronous part of a handler up to its next await.                     *)
(***************************************************************************)
EXTENDS Integers, Sequences, FiniteSets, TLC

VARIABLES
  links,         \* the document's anchors, in document order: DOM state of each
  checkedLinks,  \* this.checkedLinks: the Checked-URL Set
  chains,        \* every validateLink call that got past the dedup/validity check
  scans,         \* every checkBrokenLinks call: whether its promise has resolved
  initialized,   \* initTRSFoundation has run (window.TRSFoundation is set, interval armed)
  corrections,   \* what logCorrection has written, in order
  deploy         \* one run of a deploy script: its files, environment and position

vars == <<links, checkedLinks, chains, scans, initialized, corrections, deploy>>

----------------------------------------------------------------------------
(* Bounds of the model *)

\* number of anchors a[href] in the document
NumLinks == 2

\* number of checkBrokenLinks runs (the initial one included) a behaviour may start
MaxScans == 2

(* Program constants: the constructor's configuration *)
retryAttempts == 3
retryDelay == 1000
fallbackUrl == "/404.html"

\* the document's base URL, against which link.href resolves relative hrefs
Origin == "https://trs.org"

\* the href attribute values an anchor of the page may carry at load time
Hrefs ==
  { "http://example.com/old",     \* cross-origin, 'http://' pattern
    "http://www.github.com/p",    \* all three patterns occur
    "/about",                     \* same-origin relative, no pattern
    "ftp://x",                    \* scheme other than http/https
    "http://" }                   \* malformed: does not parse

----------------------------------------------------------------------------
(* JavaScript string primitives, computed on TLA+ strings *)

Min(S) == CHOOSE x \in S : \A y \in S : x <= y

\* String.prototype.indexOf, 1-based; 0 when p does not occur in s
IndexOf(s, p) ==
  LET Occurrences(str) ==
        { i \in 1..(Len(str) - Len(p) + 1) : SubSeq(str, i, i + Len(p) - 1) = p }
      \* s is evaluated once, then searched
      at == UNION { Occurrences(str) : str \in {s} }
  IN  IF at = {} THEN 0 ELSE Min(at)

\* String.prototype.includes
Includes(s, p) == IndexOf(s, p) # 0

\* String.prototype.replace with a string pattern: the first occurrence only
Replace(s, p, r) ==
  LET i == IndexOf(s, p)
  IN  IF i = 0 THEN s
      ELSE SubSeq(s, 1, i - 1) \o r \o SubSeq(s, i + Len(p), Len(s))

StartsWith(s, p) == Len(s) >= Len(p) /\ SubSeq(s, 1, Len(p)) = p

----------------------------------------------------------------------------
(* URL handling *)

\* new URL(string): the protocol of an absolute URL, or "TypeError" when the
\* string has no scheme or a '//' authority with an empty host
ParseUrl(string) ==
  LET i == IndexOf(string, "://")
  IN  IF i <= 1 \/ i + 2 = Len(string) THEN "TypeError"
      ELSE SubSeq(string, 1, i)

\* (mutant) the protocol test dropped: anything that parses is valid
isValidUrlAnyScheme(string) == ParseUrl(string) # "TypeError"

\* isValidUrl: parses, and the protocol is http: or https:
isValidUrl(string) ==
  LET protocol == ParseUrl(string)
  IN  IF protocol = "TypeError" THEN FALSE
      ELSE protocol = "http:" \/ protocol = "https:"

\* the link.href getter: the attribute resolved against the document's base
\* URL; the attribute itself when it does not parse
HrefOf(attr) ==
  IF StartsWith(attr, "/") THEN Origin \o attr
  ELSE IF ParseUrl(attr) = "TypeError" THEN attr
  ELSE LET rest == SubSeq(attr, IndexOf(attr, "://") + 3, Len(attr))
       IN  IF Includes(rest, "/") THEN attr ELSE attr \o "/"

\* whether a fetch of url from this document is a same-origin request
SameOrigin(url) == url = Origin \/ StartsWith(url, Origin \o "/")

\* how a fetch(url, {method: 'HEAD', mode: 'no-cors'}) can settle:
\*   "ok"      resolves, response.ok
\*   "opaque"  resolves, response.type === 'opaque' (any cross-origin answer)
\*   "bad"     resolves, neither ok nor opaque (a same-origin 404, 500, ...)
\*   "reject"  the promise rejects (network error)
FetchOutcomes(url) ==
  IF SameOrigin(url) THEN {"ok", "bad", "reject"} ELSE {"opaque", "reject"}

----------------------------------------------------------------------------
(* DOM state of one anchor *)

NoAttrs == [n \in {} |-> ""]

\* Element.setAttribute
SetAttribute(attrs, name, value) ==
  [n \in (DOMAIN attrs) \cup {name} |-> IF n = name THEN value ELSE attrs[n]]

\* an anchor as the page delivers it: nothing of the component on it yet
Anchor(attr) ==
  [ href      |-> attr,      \* the href attribute as written
    title     |-> "",
    classList |-> {},
    attrs     |-> NoAttrs,   \* data-* attributes set by the component
    notices   |-> 0 ]        \* number of '.trs-correction-notice' children

\* markLinkHealthy
markLinkHealthy(link) ==
  [link EXCEPT !.classList = @ \cup {"trs-verified-link"},
               !.attrs = SetAttribute(@, "data-trs-verified", "Date.now()")]

\* the alternatives object of findAlternative, in Object.entries order
Alternatives(url) ==
  << <<"http://",    Replace(url, "http://", "https://")>>,
     <<"www.",       Replace(url, "www.", "")>>,
     <<"github.com", Replace(url, "github.com", "github.io")>> >>

\* (mutant) the last matching entry wins instead of the first
findAlternativeLastHit(url) ==
  LET alt  == Alternatives(url)
      hits == { i \in 1..Len(alt) : Includes(url, alt[i][1]) /\ alt[i][2] # url }
  IN  IF hits = {} THEN fallbackUrl
      ELSE alt[CHOOSE i \in hits : \A j \in hits : j <= i][2]

\* findAlternative: the first entry whose pattern occurs in url and whose
\* alternative differs from url; the fallback when there is none
findAlternative(url) ==
  LET alt  == Alternatives(url)
      hits == { i \in 1..Len(alt) : Includes(url, alt[i][1]) /\ alt[i][2] # url }
  IN  IF hits = {} THEN fallbackUrl ELSE alt[Min(hits)][2]

\* canRedirectToAlternative
canRedirectToAlternative(url) ==
  Includes(url, "http://") \/ Includes(url, "www.") \/ Includes(url, "github.com")

\* the entry logCorrection writes for a broken link whose link.href is originalUrl
CorrectionOf(originalUrl) ==
  IF canRedirectToAlternative(originalUrl)
  THEN [original |-> originalUrl, corrected |-> findAlternative(originalUrl),
        type |-> "alternative_found"]
  ELSE [original |-> originalUrl, corrected |-> fallbackUrl,
        type |-> "fallback_applied"]

\* (mutant) the notice appended without looking for an existing one
AppendNoticeAlways(link) == [link EXCEPT !.notices = @ + 1]

\* the notice block of handleBrokenLink: appended unless the link has one
AppendNotice(link) ==
  IF link.notices = 0 THEN [link EXCEPT !.notices = @ + 1] ELSE link

\* handleBrokenLink: the anchor after the correction
handleBrokenLink(link) ==
  LET originalUrl == HrefOf(link.href)
      c == CorrectionOf(originalUrl)
      suffix == IF c.type = "alternative_found"
                THEN " | Redirected to working alternative"
                ELSE " | Temporarily unavailable"
  IN  AppendNotice(
        [link EXCEPT !.href = c.corrected,
                     !.title = "Original: " \o originalUrl \o suffix,
                     !.classList = @ \cup {"trs-corrected-link"},
                     !.attrs = SetAttribute(@, "data-original-url", originalUrl)])

----------------------------------------------------------------------------
(* Probe chains: one per validateLink call that reaches the loop *)

\* (mutant) the guard without the dedup test
SkipsInvalidOnly(checked, url) == ~isValidUrl(url)

\* validateLink's guard: skip if already checked or invalid URL
Skips(checked, url) == url \in checked \/ ~isValidUrl(url)

\* (mutant) the URL is not recorded when validation begins
AddCheckedNever(checked, url) == checked

\* this.checkedLinks.add(url), before the loop
AddChecked(checked, url) == checked \cup {url}

\* the chain as it stands when validateLink reaches its first await:
\* attempt 1, its fetch issued
NewChain(l, url, scan) ==
  [ link     |-> l,          \* index of the anchor validateLink was given
    url      |-> url,        \* const url = link.href, captured at the call
    scan     |-> scan,       \* the checkBrokenLinks call that made the call
    attempt  |-> 1,          \* the loop variable
    pc       |-> "fetch",    \* "fetch": awaiting fetch; "sleep": awaiting sleep; "done"
    timer    |-> 0,          \* ms of the sleep being awaited
    fetches  |-> 1,          \* fetch calls issued so far
    last     |-> "none",     \* how the latest settled fetch of the chain settled
    slept    |-> 0,          \* ms awaited between that settlement and the fetch in
                             \* flight; 0 when no fetch is in flight
    result   |-> "none" ]    \* "healthy", "corrected", or "exhausted" (loop ran out)

\* validateLink(links[l]) up to its first await, as one step of the map in
\* checkBrokenLinks; st = [checked, chains]
validateLink(st, l, scan) ==
  LET url == HrefOf(links[l].href)
  IN  IF Skips(st.checked, url) THEN st
      ELSE [ checked |-> AddChecked(st.checked, url),
             chains  |-> Append(st.chains, NewChain(l, url, scan)) ]

\* Array.from(links).map(link => this.validateLink(link)), anchors i..NumLinks
RECURSIVE MapValidate(_, _, _)
MapValidate(st, i, scan) ==
  IF i > NumLinks THEN st
  ELSE MapValidate(validateLink(st, i, scan), i + 1, scan)

\* checkBrokenLinks up to its await, started from the set `checked`
checkBrokenLinks(checked) ==
  LET scan == Len(scans) + 1
      st   == MapValidate([checked |-> checked, chains |-> chains], 1, scan)
  IN  /\ checkedLinks' = st.checked
      /\ chains' = st.chains
      /\ scans' = Append(scans,
           [ complete |-> FALSE,
             \* link.href of every anchor of the NodeList, as the map read it
             hrefs |-> [l \in 1..NumLinks |-> HrefOf(links[l].href)] ])

----------------------------------------------------------------------------
(* The loop body of validateLink, after the awaited fetch has settled *)

\* (mutant) an opaque response no longer counts as healthy
IsHealthyOkOnly(outcome) == outcome = "ok"

\* response.ok || response.type === 'opaque'
IsHealthy(outcome) == outcome \in {"ok", "opaque"}

\* attempt === this.retryAttempts
IsLastAttempt(attempt) == attempt = retryAttempts

\* this.retryDelay * attempt
BackoffDelay(attempt) == retryDelay * attempt

\* (mutant) the loop test off by one: a fourth attempt is made
NextAttemptOneMore(ch, slept) ==
  IF ch.attempt <= retryAttempts
  THEN [ch EXCEPT !.attempt = @ + 1, !.pc = "fetch", !.timer = 0,
                  !.fetches = @ + 1, !.slept = slept]
  ELSE [ch EXCEPT !.pc = "done", !.timer = 0, !.slept = 0, !.result = "exhausted"]

\* attempt++ and the loop test: the next fetch, or the end of the function
\* when the loop runs out; slept = ms awaited since the attempt settled
NextAttempt(ch, slept) ==
  IF ch.attempt + 1 <= retryAttempts
  THEN [ch EXCEPT !.attempt = @ + 1, !.pc = "fetch", !.timer = 0,
                  !.fetches = @ + 1, !.slept = slept]
  ELSE [ch EXCEPT !.pc = "done", !.timer = 0, !.slept = 0, !.result = "exhausted"]

\* the try block after the await: a healthy response marks the link and
\* returns; any other response falls through to the next iteration
FetchResolves(c, outcome) ==
  LET ch == [chains[c] EXCEPT !.last = outcome]
  IN  /\ chains[c].pc = "fetch"
      /\ outcome \in FetchOutcomes(chains[c].url) \ {"reject"}
      /\ IF IsHealthy(outcome)
         THEN /\ links' = [links EXCEPT ![ch.link] = markLinkHealthy(@)]
              /\ chains' = [chains EXCEPT ![c] =
                              [ch EXCEPT !.pc = "done", !.slept = 0, !.result = "healthy"]]
         ELSE /\ links' = links
              /\ chains' = [chains EXCEPT ![c] = NextAttempt(ch, 0)]
      /\ UNCHANGED <<checkedLinks, scans, initialized, corrections, deploy>>

\* the catch block: correction on the last attempt, otherwise the backoff sleep
FetchRejects(c) ==
  LET ch == [chains[c] EXCEPT !.last = "reject"]
  IN  /\ chains[c].pc = "fetch"
      /\ "reject" \in FetchOutcomes(chains[c].url)
      /\ IF IsLastAttempt(ch.attempt)
         THEN /\ links' = [links EXCEPT ![ch.link] = handleBrokenLink(@)]
              /\ corrections' = Append(corrections,
                   [link |-> ch.link, chain |-> c,
                    entry |-> CorrectionOf(HrefOf(links[ch.link].href))])
              /\ chains' = [chains EXCEPT ![c] =
                              [ch EXCEPT !.pc = "done", !.slept = 0, !.result = "corrected"]]
         ELSE /\ chains' = [chains EXCEPT ![c] =
                              [ch EXCEPT !.pc = "sleep", !.slept = 0,
                                         !.timer = BackoffDelay(ch.attempt)]]
              /\ UNCHANGED <<links, corrections>>
      /\ UNCHANGED <<checkedLinks, scans, initialized, deploy>>

\* the setTimeout of sleep(ms) fires: the loop goes on with the next attempt
SleepEnds(c) ==
  /\ chains[c].pc = "sleep"
  /\ chains' = [chains EXCEPT ![c] = NextAttempt(chains[c], chains[c].timer)]
  /\ UNCHANGED <<links, checkedLinks, scans, initialized, corrections, deploy>>

\* the chains validateLink started for scan s
ChainsOf(s) == { c \in 1..Len(chains) : chains[c].scan = s }

\* (mutant) the scan resolves without waiting for its chains
ScanSettlesUnawaited(s) ==
  /\ ~scans[s].complete
  /\ scans' = [scans EXCEPT ![s].complete = TRUE]
  /\ UNCHANGED <<links, checkedLinks, chains, initialized, corrections, deploy>>

\* await Promise.allSettled(linkPromises) returns: every promise has settled
ScanSettles(s) ==
  /\ ~scans[s].complete
  /\ \A c \in ChainsOf(s) : chains[c].pc = "done"
  /\ scans' = [scans EXCEPT ![s].complete = TRUE]
  /\ UNCHANGED <<links, checkedLinks, chains, initialized, corrections, deploy>>

----------------------------------------------------------------------------
(* The scheduler *)

\* initTRSFoundation: the initial check, then startPeriodicCheck and the global
InitTRSFoundation ==
  /\ ~initialized
  /\ Len(scans) < MaxScans
  /\ checkBrokenLinks(checkedLinks)
  /\ initialized' = TRUE
  /\ UNCHANGED <<links, corrections, deploy>>

\* (mutant) the interval callback holding back while a probe is in flight
IntervalFiresAfterChains ==
  /\ initialized
  /\ Len(scans) < MaxScans
  /\ \A c \in 1..Len(chains) : chains[c].pc = "done"
  /\ checkBrokenLinks({})
  /\ UNCHANGED <<links, initialized, corrections, deploy>>

\* (mutant) the interval callback without the clear
IntervalFiresNoClear ==
  /\ initialized
  /\ Len(scans) < MaxScans
  /\ checkBrokenLinks(checkedLinks)
  /\ UNCHANGED <<links, initialized, corrections, deploy>>

\* the setInterval callback: clear the cache, check again
IntervalFires ==
  /\ initialized
  /\ Len(scans) < MaxScans
  /\ checkBrokenLinks({})
  /\ UNCHANGED <<links, initialized, corrections, deploy>>

\* recheckAll, through window.recheckTRSLinks or window.TRSFoundation
recheckAll ==
  /\ initialized
  /\ Len(scans) < MaxScans
  /\ checkBrokenLinks({})
  /\ UNCHANGED <<links, initialized, corrections, deploy>>

\* window.recheckTRSLinks before initTRSFoundation has run: a warning only
RecheckNotInitialized ==
  /\ ~initialized
  /\ UNCHANGED vars

----------------------------------------------------------------------------
(* The deploy scripts: src/unnamed/part_000 (deploy retried in a loop) and  *)
(* src/scripts/deploy.sh (no loop). One step is one line of the script.     *)

\* max_attempts of the retry loop
max_attempts == 3

TokenName == "NETLIFY_AUTH_TOKEN"

\* an environment without the variable
NoEnv == [n \in {} |-> ""]

\* the environments a run can start in: variable unset, empty, set
Environments == { NoEnv, TokenName :> "", TokenName :> "nfp_t0k3n" }

\* "$NAME": the value, the empty string when unset (no set -u)
Expand(env, name) == IF name \in DOMAIN env THEN env[name] ELSE ""

\* exit status of [ -z string ]
TestZ(string) == IF Len(string) = 0 THEN 0 ELSE 1

\* exit status of [ -f file ] and [ -d dir ], on whether it is there
TestExists(there) == IF there THEN 0 ELSE 1

\* (mutant) errexit without the exemption of the non-final commands of a list
ErrexitOnAnyFailure(status, finalOfList) == status # 0

\* set -e: the shell exits on a failing command, unless the command is part
\* of an && or || list and is not the one after the final && or ||
ErrexitFires(status, finalOfList) == status # 0 /\ finalOfList

\* the run before its first line
StartOf(script, netlifyToml, out, env) ==
  [ script  |-> script,       \* "retry": part_000; "plain": scripts/deploy.sh
    files   |-> [netlifyToml |-> netlifyToml, out |-> out],
    env     |-> env,
    pc      |-> "marker",     \* the line to run next; "exited" after the end
    attempt |-> 1,            \* attempt=1 (part_000)
    log     |-> << >>,        \* the commands run so far, each with its exit status
    exit    |-> -1 ]          \* the script's exit status; -1 while it runs

\* no deploy script is run
NotDeploying ==
  [ script |-> "none", files |-> [netlifyToml |-> FALSE, out |-> FALSE],
    env |-> NoEnv, pc |-> "exited", attempt |-> 1, log |-> << >>, exit |-> -1 ]

\* cmd has run and returned status
Ran(d, cmd, status) == [d EXCEPT !.log = Append(@, [cmd |-> cmd, status |-> status])]

\* exit code
Exit(d, code) == [d EXCEPT !.pc = "exited", !.exit = code]

\* cmd || { echo ...; exit 1; }, then the line `next`
OrExit1(d, cmd, status, next) ==
  IF status = 0 THEN [Ran(d, cmd, status) EXCEPT !.pc = next]
  ELSE Exit(Ran(d, cmd, status), 1)

\* [ -f netlify.toml ] || { ...; exit 1; }
CheckMarker ==
  /\ deploy.pc = "marker"
  /\ deploy' = OrExit1(deploy, "[ -f netlify.toml ]",
                        TestExists(deploy.files.netlifyToml), "clean")
  /\ UNCHANGED <<links, checkedLinks, chains, scans, initialized, corrections>>

\* [ -d out ] && { ...; rm -rf out; }
CleanOut ==
  /\ deploy.pc = "clean"
  /\ LET test == TestExists(deploy.files.out)
         t == Ran(deploy, "[ -d out ]", test)
     IN  IF test = 0
         THEN \E status \in {0, 1} :
                LET r == Ran(t, "rm -rf out", status)
                IN  deploy' = IF ErrexitFires(status, TRUE) THEN Exit(r, status)
                              ELSE [r EXCEPT !.files.out = FALSE, !.pc = "token"]
         ELSE deploy' = IF ErrexitFires(test, FALSE) THEN Exit(t, test)
                        ELSE [t EXCEPT !.pc = "token"]
  /\ UNCHANGED <<links, checkedLinks, chains, scans, initialized, corrections>>

\* [ -z "$NETLIFY_AUTH_TOKEN" ] && { ...; exit 1; }
CheckToken ==
  /\ deploy.pc = "token"
  /\ LET test == TestZ(Expand(deploy.env, TokenName))
         t == Ran(deploy, "[ -z $NETLIFY_AUTH_TOKEN ]", test)
     IN  deploy' = IF test = 0 THEN Exit(t, 1)
                   ELSE IF ErrexitFires(test, FALSE) THEN Exit(t, test)
                   ELSE [t EXCEPT !.pc = IF deploy.script = "retry"
                                         THEN "npm --version" ELSE "npm ci"]
  /\ UNCHANGED <<links, checkedLinks, chains, scans, initialized, corrections>>

\* npm_version=$(npm --version 2>/dev/null) || { ...; exit 1; }   (part_000 only)
NpmVersion ==
  /\ deploy.pc = "npm --version"
  /\ \E status \in {0, 1} :
       deploy' = OrExit1(deploy, "npm --version", status, "npm ci")
  /\ UNCHANGED <<links, checkedLinks, chains, scans, initialized, corrections>>

\* npm ci || { ...; exit 1; }
NpmCi ==
  /\ deploy.pc = "npm ci"
  /\ \E status \in {0, 1} :
       deploy' = OrExit1(deploy, "npm ci", status, "npm run build")
  /\ UNCHANGED <<links, checkedLinks, chains, scans, initialized, corrections>>

\* npm run build || { ...; exit 1; }
NpmRunBuild ==
  /\ deploy.pc = "npm run build"
  /\ \E status \in {0, 1} :
       deploy' = OrExit1(deploy, "npm run build", status, "npm run export")
  /\ UNCHANGED <<links, checkedLinks, chains, scans, initialized, corrections>>

\* npm run export || { ...; exit 1; }
NpmRunExport ==
  /\ deploy.pc = "npm run export"
  /\ \E status \in {0, 1} :
       deploy' = OrExit1(deploy, "npm run export", status, "netlify deploy")
  /\ UNCHANGED <<links, checkedLinks, chains, scans, initialized, corrections>>

\* part_000, one turn of the while loop up to its exit or its sleep
DeployAttempt ==
  /\ deploy.script = "retry"
  /\ deploy.pc = "netlify deploy"
  /\ deploy.attempt <= max_attempts
  /\ \E status \in {0, 1} :
       LET r == Ran(deploy, "netlify deploy", status)
       IN  deploy' = IF status = 0 THEN Exit(r, 0)
                     ELSE IF deploy.attempt = max_attempts THEN Exit(r, 1)
                     ELSE [r EXCEPT !.pc = "sleep"]
  /\ UNCHANGED <<links, checkedLinks, chains, scans, initialized, corrections>>

\* part_000: sleep 5; attempt=$((attempt + 1))
Pause ==
  /\ deploy.pc = "sleep"
  /\ deploy' = [Ran(deploy, "sleep 5", 0) EXCEPT !.attempt = @ + 1,
                                                  !.pc = "netlify deploy"]
  /\ UNCHANGED <<links, checkedLinks, chains, scans, initialized, corrections>>

\* scripts/deploy.sh: netlify deploy --prod --dir=out || { ...; exit 1; }, then
\* the last echo and the end of the script
DeployOnce ==
  /\ deploy.script = "plain"
  /\ deploy.pc = "netlify deploy"
  /\ \E status \in {0, 1} :
       LET r == Ran(deploy, "netlify deploy", status)
       IN  deploy' = IF status = 0 THEN Exit(r, 0) ELSE Exit(r, 1)
  /\ UNCHANGED <<links, checkedLinks, chains, scans, initialized, corrections>>

----------------------------------------------------------------------------
(* The specification *)

Init ==
  /\ links \in [1..NumLinks -> { Anchor(h) : h \in Hrefs }]
  /\ checkedLinks = {}
  /\ chains = << >>
  /\ scans = << >>
  /\ initialized = FALSE
  /\ corrections = << >>
  /\ deploy = NotDeploying

Next ==
  \/ InitTRSFoundation
  \/ IntervalFires
  \/ recheckAll
  \/ RecheckNotInitialized
  \/ \E c \in 1..Len(chains) : \E o \in {"ok", "opaque", "bad"} : FetchResolves(c, o)
  \/ \E c \in 1..Len(chains) : FetchRejects(c)
  \/ \E c \in 1..Len(chains) : SleepEnds(c)
  \/ \E s \in 1..Len(scans) : ScanSettles(s)

Spec == Init /\ [][Next]_vars

\* a pending fetch resolves or a pending timer fires
ResolveOrFire ==
  \E c \in 1..Len(chains) :
    \/ \E o \in {"ok", "opaque", "bad"} : FetchResolves(c, o)
    \/ SleepEnds(c)

\* no fetch and no timer stays pending for ever: ResolveOrFire is enabled
\* exactly while one is pending, and a rejection ends the pending state as
\* well, so a behaviour is fair exactly when every fetch it issues settles
\* (resolving or rejecting) and every setTimeout fires
FairSpec == Spec /\ WF_vars(ResolveOrFire)

----------------------------------------------------------------------------
(* One scan cycle over a wider choice of hrefs: the page is closed before the
   interval fires and nobody calls recheckAll *)

CorrectionHrefs ==
  Hrefs \cup
  { "https://www.trs.org/a",               \* 'www.' only
    "https://github.com/t",                \* 'github.com' only
    "https://www.github.com/x",            \* 'www.' and 'github.com'
    "https://w.io/?u=http://www.a.io/",    \* 'www.' and 'http://', inside a query
    "https://trs.org/b",                   \* same-origin absolute, no pattern
    "https://cross-origin.example" }       \* cross-origin, no pattern, no path

InitOneScan ==
  /\ links \in [1..NumLinks -> { Anchor(h) : h \in CorrectionHrefs }]
  /\ checkedLinks = {}
  /\ chains = << >>
  /\ scans = << >>
  /\ initialized = FALSE
  /\ corrections = << >>
  /\ deploy = NotDeploying

NextOneScan ==
  \/ InitTRSFoundation
  \/ RecheckNotInitialized
  \/ \E c \in 1..Len(chains) : \E o \in {"ok", "opaque", "bad"} : FetchResolves(c, o)
  \/ \E c \in 1..Len(chains) : FetchRejects(c)
  \/ \E c \in 1..Len(chains) : SleepEnds(c)
  \/ \E s \in 1..Len(scans) : ScanSettles(s)

SpecOneScan == InitOneScan /\ [][NextOneScan]_vars

\* one run of one of the two deploy scripts, from any checkout and environment;
\* the page plays no part
InitDeploy ==
  /\ links = [l \in 1..NumLinks |-> Anchor("/about")]
  /\ checkedLinks = {}
  /\ chains = << >>
  /\ scans = << >>
  /\ initialized = FALSE
  /\ corrections = << >>
  /\ \E script \in {"retry", "plain"}, netlifyToml, out \in BOOLEAN, env \in Environments :
       deploy = StartOf(script, netlifyToml, out, env)

NextDeploy ==
  \/ CheckMarker
  \/ CleanOut
  \/ CheckToken
  \/ NpmVersion
  \/ NpmCi
  \/ NpmRunBuild
  \/ NpmRunExport
  \/ DeployAttempt
  \/ Pause
  \/ DeployOnce

SpecDeploy == InitDeploy /\ [][NextDeploy]_vars

----------------------------------------------------------------------------
(* C1 *)

\* C1: a probe chain that has ended has ended healthy or corrected: when none
\* of its attempts was healthy, whatever the form of the failures, the element
\* was handed to handleBrokenLink.
C1_ChainEndsHealthyOrCorrected ==
  \A c \in 1..Len(chains) :
    chains[c].pc = "done" => chains[c].result \in {"healthy", "corrected"}

----------------------------------------------------------------------------
(* C2 *)

\* C2: when a scan has completed, every anchor that carried, when the scan
\* read it, a URL whose probe chain in that scan ended in a correction has
\* itself been rewritten (it carries the corrected-link class).
C2_EveryAnchorOfBrokenUrlRewritten ==
  \A s \in 1..Len(scans) :
    scans[s].complete =>
      \A c \in ChainsOf(s) :
        chains[c].result = "corrected" =>
          \A l \in 1..NumLinks :
            scans[s].hrefs[l] = chains[c].url =>
              "trs-corrected-link" \in links[l].classList

----------------------------------------------------------------------------
(* C3 *)

\* the chains of scan s that probe url
ChainsFor(s, url) == { c \in ChainsOf(s) : chains[c].url = url }

RECURSIVE SumFetches(_)
SumFetches(cs) ==
  IF cs = {} THEN 0
  ELSE LET c == CHOOSE x \in cs : TRUE
       IN  chains[c].fetches + SumFetches(cs \ {c})

\* number of fetch calls scan s has issued for url
FetchCount(s, url) == SumFetches(ChainsFor(s, url))

\* C3 as stated: within one scan, fetch is invoked at most once for any URL.
C3_FetchAtMostOncePerUrl ==
  \A s \in 1..Len(scans) : \A l \in 1..NumLinks :
    FetchCount(s, scans[s].hrefs[l]) <= 1

\* C3 as amended: within one scan at most one probe chain is started for any
\* URL, whatever the number of anchors that carry it, so fetch is invoked for
\* the URL at most retryAttempts times (the attempts of that one chain); every
\* other anchor carrying that href has no chain and no probe.
C3_OneChainPerUrlPerScan ==
  \A s \in 1..Len(scans) : \A l \in 1..NumLinks :
    LET url == scans[s].hrefs[l]
    IN  /\ Cardinality(ChainsFor(s, url)) <= 1
        /\ FetchCount(s, url) <= retryAttempts
        /\ \A k \in 1..NumLinks :
             (k # l /\ scans[s].hrefs[k] = url) =>
               ~(\E c, d \in ChainsOf(s) :
                   chains[c].link = l /\ chains[d].link = k)

\* two anchors carry the same URL in a scan, and its one chain has retried
C3_Witness ==
  \E s \in 1..Len(scans) : \E l, k \in 1..NumLinks :
    /\ l # k
    /\ scans[s].hrefs[l] = scans[s].hrefs[k]
    /\ \E c \in ChainsOf(s) : chains[c].link = l /\ chains[c].fetches = retryAttempts
    /\ ~(\E d \in ChainsOf(s) : chains[d].link = k)

----------------------------------------------------------------------------
(* C4 *)

\* C4: a fetch of attempt k+1 in flight was issued after a wait of
\* retryDelay * k since attempt k failed, whatever the kind of failure; a wait
\* in progress follows an attempt that is not the last and lasts
\* retryDelay * attempt.
C4_LinearBackoff ==
  \A c \in 1..Len(chains) :
    /\ (chains[c].pc = "fetch" /\ chains[c].attempt > 1) =>
          chains[c].slept = retryDelay * (chains[c].attempt - 1)
    /\ chains[c].pc = "sleep" =>
          /\ chains[c].attempt < retryAttempts
          /\ chains[c].timer = retryDelay * chains[c].attempt

----------------------------------------------------------------------------
(* C5 *)

\* the rewrite patterns, in the order the claim gives them
Patterns ==
  << <<"http://", "https://">>, <<"www.", "">>, <<"github.com", "github.io">> >>

\* the patterns that apply to url: the substring occurs and the substitution
\* differs from url
Applicable(url) ==
  { i \in 1..Len(Patterns) :
      /\ Includes(url, Patterns[i][1])
      /\ Replace(url, Patterns[i][1], Patterns[i][2]) # url }

\* the index of the latest correction logged for anchor l; 0 when there is none
LastCorrection(l) ==
  LET ks == { k \in 1..Len(corrections) : corrections[k].link = l }
  IN  IF ks = {} THEN 0 ELSE CHOOSE k \in ks : \A j \in ks : j <= k

\* C5: every correction applies the first applicable pattern, in the order
\* 'http://' -> 'https://', 'www.' removal, 'github.com' -> 'github.io', and
\* '/404.html' when none applies; the logged type is 'alternative_found'
\* exactly when a pattern was applied and 'fallback_applied' exactly when the
\* fallback was; the anchor then carries the replacement as href, the
\* corrected-link class and the original URL in data-original-url. An anchor
\* 'http://example.com/old' whose chain ended in the correction has href
\* 'https://example.com/old'.
C5_ReplacementChoice ==
  /\ \A k \in 1..Len(corrections) :
       LET e == corrections[k].entry
           l == corrections[k].link
           a == Applicable(e.original)
       IN  /\ a = {} => e.corrected = "/404.html" /\ e.type = "fallback_applied"
           /\ a # {} =>
                /\ e.corrected =
                     Replace(e.original, Patterns[Min(a)][1], Patterns[Min(a)][2])
                /\ e.type = "alternative_found"
           /\ k = LastCorrection(l) =>
                /\ links[l].href = e.corrected
                /\ "trs-corrected-link" \in links[l].classList
                /\ "data-original-url" \in DOMAIN links[l].attrs
                /\ links[l].attrs["data-original-url"] = e.original
  /\ \A c \in 1..Len(chains) :
       (chains[c].result = "corrected" /\ chains[c].url = "http://example.com/old") =>
          /\ links[chains[c].link].href = "https://example.com/old"
          /\ "trs-corrected-link" \in links[chains[c].link].classList
          /\ links[chains[c].link].attrs["data-original-url"] = "http://example.com/old"

\* the scenario has happened, next to a correction by the second pattern, one
\* by the third and a fallback
C5_Witness ==
  /\ \E c \in 1..Len(chains) :
       /\ chains[c].result = "corrected"
       /\ chains[c].url = "http://example.com/old"
       /\ chains[c].fetches = retryAttempts
       /\ links[chains[c].link].href = "https://example.com/old"
  /\ \E k \in 1..Len(corrections) :
       corrections[k].entry.type \in {"alternative_found", "fallback_applied"}
       /\ corrections[k].entry.original # "http://example.com/old"

----------------------------------------------------------------------------
(* C6 *)

\* C6: once an anchor has been corrected, no step changes its href again and
\* no step starts a validation (a probe chain) of it.
C6_CorrectionsPermanent ==
  [][ \A l \in 1..NumLinks :
        "trs-corrected-link" \in links[l].classList =>
          /\ links'[l].href = links[l].href
          /\ \A c \in 1..Len(chains') :
               c > Len(chains) => chains'[c].link # l ]_vars

----------------------------------------------------------------------------
(* C7 *)

\* an href that is malformed or whose scheme is not http/https
NotHttp(attr) == ParseUrl(HrefOf(attr)) \notin {"http:", "https:"}

\* C7: an anchor whose href is malformed or not http/https is as the page
\* delivered it, no probe chain (so no fetch) was ever started for it or for
\* its URL, and its URL is not in the Checked-URL Set.
C7_InvalidHrefSkipped ==
  \A l \in 1..NumLinks :
    NotHttp(links[l].href) =>
      /\ links[l] = Anchor(links[l].href)
      /\ \A c \in 1..Len(chains) :
           chains[c].link # l /\ chains[c].url # HrefOf(links[l].href)
      /\ HrefOf(links[l].href) \notin checkedLinks

\* two scans have completed over a page that holds 'ftp://x'
C7_Witness ==
  /\ \E l \in 1..NumLinks : links[l].href = "ftp://x"
  /\ Len(scans) >= 2
  /\ \A s \in 1..Len(scans) : scans[s].complete
  /\ checkedLinks # {}

----------------------------------------------------------------------------
(* C8 *)

\* C8: the step in which a fetch of a chain returns an ok or opaque response
\* ends the chain healthy, issues no further fetch, starts no wait, marks the
\* anchor verified, leaves its href as it was and logs no correction; a chain
\* whose latest response was ok or opaque stays ended, no correction is ever
\* logged for it, and none for its anchor by a chain of the same scan.
C8_HealthyStopsChain ==
  /\ [][ \A c \in 1..Len(chains) :
           (chains[c].pc = "fetch" /\ chains'[c].last \in {"ok", "opaque"}) =>
              /\ chains'[c].pc = "done"
              /\ chains'[c].result = "healthy"
              /\ chains'[c].fetches = chains[c].fetches
              /\ chains'[c].timer = 0
              /\ "trs-verified-link" \in links'[chains[c].link].classList
              /\ links'[chains[c].link].href = links[chains[c].link].href
              /\ corrections' = corrections ]_vars
  /\ [](\A c \in 1..Len(chains) :
          chains[c].last \in {"ok", "opaque"} =>
             /\ chains[c].pc = "done"
             /\ chains[c].result = "healthy"
             /\ \A k \in 1..Len(corrections) :
                  /\ corrections[k].chain # c
                  /\ corrections[k].link = chains[c].link =>
                       chains[corrections[k].chain].scan # chains[c].scan)

\* a chain ended healthy on an opaque response after two failed attempts,
\* its anchor unmodified
C8_Witness ==
  \E c \in 1..Len(chains) :
    /\ chains[c].result = "healthy"
    /\ chains[c].last = "opaque"
    /\ chains[c].fetches = retryAttempts
    /\ links[chains[c].link].href = "http://example.com/old"
    /\ "trs-verified-link" \in links[chains[c].link].classList

----------------------------------------------------------------------------
(* C9 *)

\* C9: an anchor holds at most one '.trs-correction-notice' child, however
\* many times handleBrokenLink has been invoked on it: one if it has been
\* corrected, none otherwise.
C9_AtMostOneNotice ==
  \A l \in 1..NumLinks :
    /\ links[l].notices <= 1
    /\ links[l].notices = 1 <=> LastCorrection(l) # 0

\* handleBrokenLink has run twice on one anchor, which holds one notice
C9_Witness ==
  \E l \in 1..NumLinks :
    /\ Cardinality({ k \in 1..Len(corrections) : corrections[k].link = l }) >= 2
    /\ links[l].notices = 1

----------------------------------------------------------------------------
(* C10 *)

\* C10: the URL of every chain started since the last clear is in the
\* Checked-URL Set, whether its probe is in flight, it is waiting, or it has
\* ended; so no two chains of one scan probe the same URL.
C10_CheckedBeforeFirstFetch ==
  \A c \in 1..Len(chains) :
    /\ chains[c].scan = Len(scans) => chains[c].url \in checkedLinks
    /\ \A d \in 1..Len(chains) :
         (d # c /\ chains[d].scan = chains[c].scan) => chains[d].url # chains[c].url

\* the first fetch of a chain is in flight, its URL already in the set, and
\* a second anchor with the same URL got no chain
C10_Witness ==
  \E c \in 1..Len(chains) : \E l \in 1..NumLinks :
    /\ chains[c].scan = Len(scans)
    /\ chains[c].pc = "fetch" /\ chains[c].fetches = 1
    /\ chains[c].url \in checkedLinks
    /\ l # chains[c].link
    /\ scans[chains[c].scan].hrefs[l] = chains[c].url
    /\ \A d \in 1..Len(chains) : chains[d].link # l

----------------------------------------------------------------------------
(* C11 *)

\* C11: the promise of a scan resolves only in a step before which every
\* chain the scan started had ended, retries and waits included; a resolved
\* scan has no chain still running; and once all its chains have ended the
\* scan can resolve whatever their results.
C11_ScanResolvesAfterChains ==
  /\ [][ \A s \in 1..Len(scans) :
           (~scans[s].complete /\ scans'[s].complete) =>
              \A c \in ChainsOf(s) : chains[c].pc = "done" ]_vars
  /\ [](\A s \in 1..Len(scans) :
          /\ scans[s].complete => \A c \in ChainsOf(s) : chains[c].pc = "done"
          /\ (~scans[s].complete /\ \A c \in ChainsOf(s) : chains[c].pc = "done")
                => ENABLED ScanSettles(s))

\* a scan has resolved whose chains ended one healthy after a retry and one
\* corrected after three fetches
C11_Witness ==
  \E s \in 1..Len(scans) :
    /\ scans[s].complete
    /\ \E c, d \in ChainsOf(s) :
         /\ chains[c].result = "corrected" /\ chains[c].fetches = retryAttempts
         /\ chains[d].result = "healthy" /\ chains[d].fetches > 1

----------------------------------------------------------------------------
(* C12 *)

\* the URLs of the document's anchors that isValidUrl accepts
ValidUrlsOfDocument ==
  { HrefOf(links[l].href) : l \in { k \in 1..NumLinks : ~NotHttp(links[k].href) } }

\* C12: a step either keeps every URL of the Checked-URL Set (the set only
\* grows), or it is the interval callback or recheckAll; such a step leaves
\* in the set exactly the valid URLs of the document as it stands, each with
\* a chain of the new scan probing it.
C12_LeavesOnlyByFullClear ==
  [][ /\ ~(checkedLinks \subseteq checkedLinks') => (IntervalFires \/ recheckAll)
      /\ (initialized /\ Len(scans') > Len(scans)) =>
           /\ IntervalFires \/ recheckAll
           /\ checkedLinks' = ValidUrlsOfDocument
           /\ \A u \in ValidUrlsOfDocument :
                \E c \in 1..Len(chains') :
                  /\ c > Len(chains)
                  /\ chains'[c].url = u
                  /\ chains'[c].scan = Len(scans')
                  /\ chains'[c].pc = "fetch" ]_vars

\* after a clear-and-rescan a URL checked in the first scan is gone from the
\* set and the corrected URL of its anchor is in it
C12_Witness ==
  /\ Len(scans) >= 2
  /\ \E c \in ChainsOf(1) :
       /\ chains[c].result = "corrected"
       /\ chains[c].url \notin checkedLinks
       /\ HrefOf(links[chains[c].link].href) \in checkedLinks

----------------------------------------------------------------------------
(* C15 *)

\* C15: a probe chain issues at most retryAttempts fetches, logs at most one
\* correction, and that one at its last attempt; and, every fetch settling
\* in the end, every chain that has started ends.
C15_BoundedRetryAndTermination ==
  /\ [](\A c \in 1..Len(chains) :
          /\ chains[c].fetches <= retryAttempts
          /\ chains[c].attempt <= retryAttempts
          /\ Cardinality({ k \in 1..Len(corrections) : corrections[k].chain = c }) <= 1
          /\ \A k \in 1..Len(corrections) :
               corrections[k].chain = c =>
                 /\ chains[c].pc = "done"
                 /\ chains[c].fetches = retryAttempts)
  /\ []<>(\A c \in 1..Len(chains) : chains[c].pc = "done")

\* a chain has ended after three fetches with its one correction logged
C15_Witness ==
  \E c \in 1..Len(chains) :
    /\ chains[c].pc = "done"
    /\ chains[c].fetches = retryAttempts
    /\ Cardinality({ k \in 1..Len(corrections) : corrections[k].chain = c }) = 1

----------------------------------------------------------------------------
(* C16: overlapping cycles *)

\* the chains of link l that have not ended
InFlight(l) == { c \in 1..Len(chains) : chains[c].link = l /\ chains[c].pc # "done" }

\* C16: neither the interval callback nor recheckAll cancels or waits for the
\* chains of the previous cycle: once initialised, both can run in every state
\* (up to the scan bound), whatever is in flight, and the step that starts a
\* cycle leaves every existing chain exactly as it was
C16_RescanNeitherCancelsNorWaits ==
  /\ [](initialized /\ Len(scans) < MaxScans =>
           ENABLED IntervalFires /\ ENABLED recheckAll)
  /\ [][ Len(scans') > Len(scans) =>
            /\ Len(chains') >= Len(chains)
            /\ \A c \in 1..Len(chains) : chains'[c] = chains[c] ]_vars

\* a chain of an old cycle has corrected link l after a newer cycle took the
\* same URL from the same element (the newer chain still holds the href the
\* old one has since replaced), and on another element two chains for the
\* same URL are in flight at once
C16_Witness ==
  \E l, m \in 1..NumLinks :
    /\ \E c, d \in 1..Len(chains) :
          /\ chains[c].link = l /\ chains[d].link = l
          /\ chains[c].scan < chains[d].scan
          /\ chains[c].url = chains[d].url
          /\ chains[c].pc = "done" /\ chains[c].result = "corrected"
          /\ d \in InFlight(l)
          /\ HrefOf(links[l].href) # chains[d].url
    /\ \E c, d \in InFlight(m) :
          /\ chains[c].scan < chains[d].scan
          /\ chains[c].url = chains[d].url

----------------------------------------------------------------------------
(* C17: the correction and the probed URL *)

\* C17: whenever handleBrokenLink runs for a chain, link.href is the URL the
\* chain captured and probed, so the recorded original is the probed URL, and
\* no element is corrected twice for one original URL
C17_CorrectionFromProbedUrl ==
  /\ \A k \in 1..Len(corrections) :
        corrections[k].entry.original = chains[corrections[k].chain].url
  /\ \A j, k \in 1..Len(corrections) :
        (corrections[j].link = corrections[k].link
           /\ corrections[j].entry.original = corrections[k].entry.original) => j = k

----------------------------------------------------------------------------
(* C18: traceability *)

\* C18: an element that carries data-original-url carries there the href it
\* had at page load (the one the first scan read), never a URL a correction
\* has put in place
C18_OriginalUrlIsLoadTimeHref ==
  \A l \in 1..NumLinks :
    "data-original-url" \in DOMAIN links[l].attrs =>
       /\ Len(scans) >= 1
       /\ links[l].attrs["data-original-url"] = scans[1].hrefs[l]

----------------------------------------------------------------------------
(* C13: outcome of the deploy script *)

\* the steps before the final deploy
EarlierSteps ==
  { "[ -f netlify.toml ]", "[ -z $NETLIFY_AUTH_TOKEN ]", "npm --version",
    "npm ci", "npm run build", "npm run export" }

\* the positions of cmd in the log
RunsOf(cmd) == { i \in 1..Len(deploy.log) : deploy.log[i].cmd = cmd }

\* C13: every step before the deploy is attempted once and its failure ends
\* the script with exit code 1; the deploy is attempted up to 3 times, 5
\* seconds apart; the script exits 0 as soon as a deploy attempt succeeds and
\* exits 1 on the deploy only after the third attempt has failed
C13_DeployOutcome ==
  LET log == deploy.log
      n == Len(log)
  IN  /\ \A cmd \in EarlierSteps : Cardinality(RunsOf(cmd)) <= 1
      /\ \A i \in 1..n :
            (log[i].cmd \in EarlierSteps /\ i < n) =>
               IF log[i].cmd = "[ -z $NETLIFY_AUTH_TOKEN ]"
               THEN log[i].status # 0      \* the token is there: the script goes on
               ELSE log[i].status = 0
      /\ (n > 0 /\ log[n].cmd \in EarlierSteps /\ deploy.pc = "exited") => deploy.exit = 1
      /\ Cardinality(RunsOf("netlify deploy")) <= max_attempts
      /\ \A i, j \in RunsOf("netlify deploy") :
            j > i /\ (\A k \in RunsOf("netlify deploy") : k <= i \/ k >= j) =>
               j = i + 2 /\ log[i + 1].cmd = "sleep 5" /\ log[i].status # 0
      /\ (n > 0 /\ log[n].cmd = "netlify deploy") =>
            /\ log[n].status = 0 => deploy.pc = "exited" /\ deploy.exit = 0
            /\ (deploy.pc = "exited" /\ deploy.exit = 1) =>
                  Cardinality(RunsOf("netlify deploy")) = max_attempts
      /\ deploy.exit = 0 => n > 0 /\ log[n] = [cmd |-> "netlify deploy", status |-> 0]

----------------------------------------------------------------------------
(* C14: the token check *)

\* the steps that reach the network
NetworkSteps == { "npm ci", "npm run build", "npm run export", "netlify deploy" }

\* C14: with NETLIFY_AUTH_TOKEN unset or empty no network step is ever started
\* and the token check, once run, has ended the script with status 1; with the
\* token set the token check never ends the script
C14_TokenCheck ==
  LET log == deploy.log
      n == Len(log)
      checked == RunsOf("[ -z $NETLIFY_AUTH_TOKEN ]") # {}
  IN  /\ deploy.script # "none" /\ Expand(deploy.env, TokenName) = "" =>
            /\ \A i \in 1..n : log[i].cmd \notin NetworkSteps
            /\ deploy.pc \in {"marker", "clean", "token", "exited"}
            /\ checked => /\ deploy.pc = "exited" /\ deploy.exit = 1
                          /\ log[n].cmd = "[ -z $NETLIFY_AUTH_TOKEN ]"
      /\ deploy.script # "none" /\ Expand(deploy.env, TokenName) # "" =>
            /\ checked => deploy.files.netlifyToml
            /\ (checked /\ deploy.pc = "exited") => log[n].cmd # "[ -z $NETLIFY_AUTH_TOKEN ]"
            /\ (n > 0 /\ log[n].cmd = "[ -z $NETLIFY_AUTH_TOKEN ]") =>
                  deploy.pc = IF deploy.script = "retry" THEN "npm --version" ELSE "npm ci"

\* the variable is unset, the marker file is there: the run has ended on the
\* token check with status 1 (after cleaning out/)
C14_Witness ==
  /\ TokenName \notin DOMAIN deploy.env
  /\ deploy.script \in {"retry", "plain"}
  /\ deploy.pc = "exited" /\ deploy.exit = 1
  /\ Len(deploy.log) = 4
  /\ deploy.log[3].cmd = "rm -rf out"
  /\ deploy.log[4] = [cmd |-> "[ -z $NETLIFY_AUTH_TOKEN ]", status |-> 0]


====
